---- MODULE Spec2Model ----
(***************************************************************************)
(* Sparse x dense and sparse x sparse multiplication kernels of            *)
(* src/src/matmul.cpp, modelled as a state machine.                        *)
(*                                                                         *)
(* A behaviour is one call: Init draws the arguments of one entry point,   *)
(* the Enter action runs the entry's prologue (early return, thread clamp),*)
(* the row actions are the steps the worker threads of the OpenMP          *)
(* "parallel for schedule(dynamic)" loop take, and EndParallel is the      *)
(* implicit barrier at the end of the loop.                                *)
(*                                                                         *)
(* C arrays are functions on 0..len-1.  Floating point values are modelled *)
(* by integers (every sum and product of the bounded inputs is exact in    *)
(* binary64 and binary32), plus the one value NA_REAL.  The float and the  *)
(* double instantiation of a template therefore share one model.           *)
(*                                                                         *)
(* Spec      the four parallel kernels (gemm_csr_drm_as_drm,               *)
(*           gemm_csr_drm_as_dcm and their callers, matmul_csr_dvec,       *)
(*           matmul_csr_svec), one action per iteration of the parallel    *)
(*           loop, any thread of the team taking any remaining row.        *)
(* SpecMerge matmul_csr_svec on one thread, one action per iteration of    *)
(*           its "while (true)" loop.                                      *)
(* SpecOuter matmul_colvec_by_scolvecascsr_template, one action per        *)
(*           iteration of each of its two loops.                           *)
(* SpecContract matmul_spcolvec_by_scolvecascsr, one action per iteration  *)
(*           of its loop over y's entries and of its cumulative sum.       *)
(* SpecSparse both kernels that return a compressed sparse structure.      *)
(* SpecDot   matmul_csr_svec called on two sparse vectors, then on the     *)
(*           same two with their roles exchanged.                          *)
(*                                                                         *)
(* An access past the end of a heap block is undefined behaviour: the      *)
(* model records it in oob, and an element read back from there is either  *)
(* the one last stored or an indeterminate value.                          *)
(***************************************************************************)
EXTENDS Integers, Sequences, FiniteSets, TLC

(* ------------------------------ bounds --------------------------------- *)
MaxRows == 2
MaxCols == 2
MaxInner == 2
MaxThreads == 2

(* --------------------------- program constants -------------------------- *)
one == 1
NA_INTEGER == -2147483647 - 1
NA_LOGICAL == NA_INTEGER
NA_REAL == 2147483647
\* what a read past the end of a heap block may find
Garbage == 77

VARIABLES
    entry,        \* the entry point that is called
    m, n,         \* kernel arguments: rows of the sparse operand, columns of the dense one
    indptr, indices, values,   \* the CSR operand
    DenseMat, ldb,             \* the dense operand and its leading dimension
    ldc,                       \* the output's leading dimension
    X0,                        \* the output buffer as the caller passed it
    nthreads,                  \* the thread-count hint
    ytype,                     \* element type of the vector operand
    y_dense,                   \* matmul_csr_dvec: the dense vector
    y_indices_base1, y_values, \* matmul_csr_svec: the sparse vector
    OutputMat,    \* the matrix kernels' output buffer
    out,          \* the vector kernels' output vector
    phase,        \* "entry", "parallel", "returned"
    team,         \* number of threads requested for the parallel loop
    todo,         \* loop iterations (rows) not yet handed to a thread
    temp_arr,     \* per thread: the private scratch buffer
    allocs,       \* per thread: how many times it has run "new real_t[ldc]"
    writers,      \* per output cell: the rows whose iteration stored into it
    oob,          \* an access outside an allocated block has happened
    row, ptr1, ptr2, end1,     \* matmul_csr_svec: the loop's private variables
    iters,                     \* ... iterations of "while (true)" run for the current row
    colvec,                    \* matmul_colvec_by_scolvecascsr: the dense vector
    out_csr_indptr, out_csr_indices, out_csr_values,   \* ... its result
    ncurr, ix,                 \* ... its locals
    y_length,                  \* matmul_spcolvec_by_scolvecascsr: the length of y
    out_csc_indptr, out_csc_indices, out_csc_values,   \* ... its result
    yval, col,                 \* ... its locals
    out_swapped   \* matmul_csr_svec called with its two operands exchanged: its result

inputs == <<entry, m, n, indptr, indices, values, DenseMat, ldb, ldc, X0, nthreads,
            ytype, y_dense, y_indices_base1, y_values>>
merge == <<row, ptr1, ptr2, end1, iters>>
outer == <<colvec, out_csr_indptr, out_csr_indices, out_csr_values, ncurr, ix>>
contract == <<y_length, out_csc_indptr, out_csc_indices, out_csc_values, yval, col>>
vars == <<inputs, OutputMat, out, phase, team, todo, temp_arr, allocs, writers, oob, merge, outer,
          contract, out_swapped>>

Threads == 1..MaxThreads

(* ------------------------------ helpers -------------------------------- *)
Min(a, b) == IF a < b THEN a ELSE b
Max(a, b) == IF a > b THEN a ELSE b

\* number of members of S below x
Rank(S, x) == Cardinality({e \in S : e < x})

\* length of a C array
Size(arr) == Cardinality(DOMAIN arr)

\* arithmetic of doubles: NA_REAL is a NaN and is absorbing
DAdd(a, b) == IF a = NA_REAL \/ b = NA_REAL THEN NA_REAL ELSE a + b
DMul(a, b) == IF a = NA_REAL \/ b = NA_REAL THEN NA_REAL ELSE a * b

\* (bool)x
Bool(x) == IF x = 0 THEN 0 ELSE 1

(* ------------------------- axpy and tcopy ------------------------------ *)
\* y[yoff + i*incy] += alpha * x[xoff + i*incx], i in [0, n_)
AxpyDropAlpha(n_, alpha, x, xoff, incx, y, yoff, incy) ==
    [c \in DOMAIN y |->
        IF \E i \in 0..(n_ - 1) : c = yoff + i * incy
        THEN LET i == CHOOSE i \in 0..(n_ - 1) : c = yoff + i * incy
             IN  y[c] + x[xoff + i * incx]
        ELSE y[c]]

Axpy(n_, alpha, x, xoff, incx, y, yoff, incy) ==
    IF incx = 1 /\ incy = 1 /\ alpha = 1
    THEN [c \in DOMAIN y |->
            IF c >= yoff /\ c < yoff + n_ THEN y[c] + x[xoff + (c - yoff)] ELSE y[c]]
    ELSE [c \in DOMAIN y |->
            IF \E i \in 0..(n_ - 1) : c = yoff + i * incy
            THEN LET i == CHOOSE i \in 0..(n_ - 1) : c = yoff + i * incy
                 IN  y[c] + alpha * x[xoff + i * incx]
            ELSE y[c]]

\* y[yoff + i*incy] = x[xoff + i*incx], i in [0, n_)
Tcopy(n_, x, xoff, incx, y, yoff, incy) ==
    [c \in DOMAIN y |->
        IF \E i \in 0..(n_ - 1) : c = yoff + i * incy
        THEN LET i == CHOOSE i \in 0..(n_ - 1) : c = yoff + i * incy
             IN  x[xoff + i * incx]
        ELSE y[c]]

\* the cells a strided store of n_ elements touches
Touched(n_, yoff, incy) == {yoff + i * incy : i \in 0..(n_ - 1)}

\* the record of which row's iteration stored into which cells
Stored(w, cells, r) == [c \in DOMAIN w |-> IF c \in cells THEN w[c] \cup {r} ELSE w[c]]

(* ----------------------------- inputs ---------------------------------- *)
\* A CSR matrix with the given set of stored columns per row; the stored
\* entries of a row are in ascending column order.
CsrIndptr(pat, mm) ==
    [r \in 0..mm |-> Cardinality(UNION {{<<q, c>> : c \in pat[q]} : q \in 0..(r - 1)})]

CsrIndices(pat, mm) ==
    LET ip == CsrIndptr(pat, mm)
    IN  [p \in 0..(ip[mm] - 1) |->
            LET r == CHOOSE r \in 0..(mm - 1) : ip[r] <= p /\ p < ip[r + 1]
            IN  CHOOSE c \in pat[r] : Rank(pat[r], c) = p - ip[r]]

\* the stored values: 1, 2, 3, ... or 2, -2, 4, -4, ...
CsrValues(scheme, nnz) ==
    [p \in 0..(nnz - 1) |->
        IF scheme = "ramp" THEN p + 1
        ELSE IF p % 2 = 0 THEN p + 2 ELSE -(p + 1)]

\* the dense operand, kk rows of ld elements: 1, 2, 3, ... or the identity
Dense(scheme, kk, ld) ==
    [c \in 0..(kk * ld - 1) |->
        IF scheme = "ramp" THEN c + 1
        ELSE IF c \div ld = c % ld THEN 1 ELSE 0]

\* the fillings of the sparse and the dense operand that are tried
Fillings == {[values |-> "ramp", dense |-> "ramp"]}

OutBuf(scheme, len) ==
    [c \in 0..(len - 1) |-> IF scheme = "zero" THEN 0 ELSE 10 + c]

\* extra elements of the leading dimensions (ldb, ldc) in a direct call
Pads == {<<0, 1>>, <<1, 0>>}

DrmEntries == {"gemm_csr_drm_as_drm", "matmul_dense_csc", "tcrossprod_dense_csr"}
DcmEntries == {"gemm_csr_drm_as_dcm", "tcrossprod_csr_dense"}
DvecEntries == {"matmul_csr_dvec"}
SvecEntries == {"matmul_csr_svec"}

\* matmul_dense_csc: gemm_csr_drm_as_drm(ncols, nrows, ..., X, nrows, out, nrows)
\* with out a fresh nrows x ncols matrix
MatmulDenseCscArgs(nrows_X, ncols_Y) ==
    [m |-> ncols_Y, n |-> nrows_X, ldb |-> nrows_X, ldc |-> nrows_X, outlen |-> nrows_X * ncols_Y]

\* tcrossprod_dense_csr: out is X.nrow x (rows of Y)
TcrossprodDenseCsrArgs(nrows_X, nrows_Y) ==
    [m |-> nrows_Y, n |-> nrows_X, ldb |-> nrows_X, ldc |-> nrows_X, outlen |-> nrows_X * nrows_Y]

\* tcrossprod_csr_dense: out is (rows of X) x Y.nrow, column-major
TcrossprodCsrDenseArgs(nrows_X, nrows_Y) ==
    [m |-> nrows_X, n |-> nrows_Y, ldb |-> nrows_Y, ldc |-> nrows_X, outlen |-> nrows_X * nrows_Y]

\* the argument tuples an entry point can hand the kernel for a sparse
\* operand of mm rows and a dense operand of nn columns
KernelArgs(e, mm, nn) ==
    CASE e = "matmul_dense_csc" -> {MatmulDenseCscArgs(nn, mm)}
      [] e = "tcrossprod_dense_csr" -> {TcrossprodDenseCsrArgs(nn, mm)}
      [] e = "tcrossprod_csr_dense" -> {TcrossprodCsrDenseArgs(mm, nn)}
      [] e = "gemm_csr_drm_as_drm" ->
            {[m |-> mm, n |-> nn, ldb |-> nn + pad[1], ldc |-> nn + pad[2],
              outlen |-> mm * (nn + pad[2])] : pad \in Pads}
      [] e = "gemm_csr_drm_as_dcm" ->
            {[m |-> mm, n |-> nn, ldb |-> nn + pad[1], ldc |-> mm + pad[2],
              outlen |-> nn * (mm + pad[2])] : pad \in Pads}

Empty == <<>>
NullPtr == [null |-> TRUE, len |-> 0, mem |-> Empty]

CallInit ==
    /\ phase = "entry"
    /\ team = 0
    /\ todo = {}
    /\ temp_arr = [t \in Threads |-> NullPtr]
    /\ allocs = [t \in Threads |-> 0]
    /\ oob = FALSE
    /\ row = 0 /\ ptr1 = 0 /\ ptr2 = 0 /\ end1 = 0
    /\ iters = 0
    /\ out_csr_indptr = Empty /\ out_csr_indices = Empty /\ out_csr_values = Empty
    /\ ncurr = 0 /\ ix = 0
    /\ out_csc_indptr = Empty /\ out_csc_indices = Empty /\ out_csc_values = Empty
    /\ yval = 0 /\ col = 0
    /\ out_swapped = Empty

NoVector ==
    /\ ytype = "none"
    /\ y_length = 0
    /\ colvec = Empty
    /\ y_dense = Empty
    /\ y_indices_base1 = Empty
    /\ y_values = Empty
    /\ out = Empty

NoMatrix ==
    /\ n = 0 /\ ldb = 0 /\ ldc = 0
    /\ DenseMat = Empty
    /\ X0 = Empty
    /\ OutputMat = Empty

InitGemm ==
    /\ entry \in DrmEntries \cup DcmEntries
    /\ \E mm \in 0..MaxRows, kk \in 1..MaxInner, nn \in 1..MaxCols :
       \E pat \in [0..(mm - 1) -> SUBSET (0..(kk - 1))] :
       \E a \in KernelArgs(entry, mm, nn), fill \in Fillings :
         /\ m = a.m
         /\ n = a.n
         /\ ldb = a.ldb
         /\ ldc = a.ldc
         /\ indptr = CsrIndptr(pat, mm)
         /\ indices = CsrIndices(pat, mm)
         /\ values = CsrValues(fill.values, CsrIndptr(pat, mm)[mm])
         /\ DenseMat = Dense(fill.dense, kk, a.ldb)
         /\ X0 \in {OutBuf(s, a.outlen) :
                      s \in IF entry = "gemm_csr_drm_as_drm" THEN {"ramp"} ELSE {"zero"}}
    /\ OutputMat = X0
    /\ writers = [c \in DOMAIN X0 |-> {}]
    /\ nthreads \in {1, MaxThreads}
    /\ NoVector
    /\ CallInit

\* the scenario of the specification: indptr=[0,2,2,3], indices=[0,1,2],
\* values=[1,2,3] times the 3x3 identity into a zero output
InitGemmExample ==
    /\ entry = "gemm_csr_drm_as_drm"
    /\ m = 3 /\ n = 3 /\ ldb = 3 /\ ldc = 3
    /\ indptr = [r \in 0..3 |-> <<0, 2, 2, 3>>[r + 1]]
    /\ indices = [p \in 0..2 |-> p]
    /\ values = [p \in 0..2 |-> p + 1]
    /\ DenseMat = Dense("eye", 3, 3)
    /\ X0 = OutBuf("zero", 9)
    /\ OutputMat = X0
    /\ writers = [c \in DOMAIN X0 |-> {}]
    /\ nthreads \in {1, MaxThreads}
    /\ NoVector
    /\ CallInit


(* ------------------------- vector operands ----------------------------- *)
VecTypes == {"numeric", "integer", "logical"}

\* the missing value of an element type
NA(type) == IF type = "integer" THEN NA_INTEGER ELSE NA_LOGICAL

\* the element at position c of a vector operand when it is not missing:
\* 2, 3, 4, ... and for a logical vector FALSE, TRUE, FALSE, ...
Plain(type, c) == IF type = "logical" THEN c % 2 ELSE c + 2

\* the sets of missing positions that are tried: a numeric vector has none
NaSets(type, positions, atMost) ==
    IF type = "numeric" THEN {{}}
    ELSE {s \in SUBSET positions : Cardinality(s) <= atMost}

\* the sorted sequence of a set of columns, as a C array
Sorted(S) == [p \in 0..(Cardinality(S) - 1) |-> CHOOSE c \in S : Rank(S, c) = p]

\* the sparse operand of the vector kernels
VecCsr(mm, kk, pat) ==
    /\ m = mm
    /\ y_length = 0
    /\ indptr = CsrIndptr(pat, mm)
    /\ indices = CsrIndices(pat, mm)
    /\ values = CsrValues("ramp", CsrIndptr(pat, mm)[mm])
    /\ out = [r \in 0..(mm - 1) |-> 0]
    /\ writers = [r \in 0..(mm - 1) |-> {}]

InitDvec ==
    /\ entry = "matmul_csr_dvec"
    /\ ytype \in VecTypes
    /\ \E mm \in 0..MaxRows, kk \in 1..MaxInner :
       \E pat \in [0..(mm - 1) -> SUBSET (0..(kk - 1))], nas \in NaSets(ytype, 0..(kk - 1), 1) :
         /\ VecCsr(mm, kk, pat)
         /\ y_dense = [c \in 0..(kk - 1) |-> IF c \in nas THEN NA(ytype) ELSE Plain(ytype, c)]
    /\ y_indices_base1 = Empty
    /\ y_values = Empty
    /\ colvec = Empty
    /\ nthreads \in {1, MaxThreads}
    /\ NoMatrix
    /\ CallInit

\* types: the element types of y that are tried; maxNa: how many of y's
\* stored values may be missing
InitSvec(types, maxNa) ==
    /\ entry = "matmul_csr_svec"
    /\ ytype \in types
    /\ \E mm \in 0..MaxRows, kk \in 1..MaxInner :
       \E pat \in [0..(mm - 1) -> SUBSET (0..(kk - 1))], S \in SUBSET (0..(kk - 1)) :
       \E nas \in NaSets(ytype, S, maxNa) :
         /\ VecCsr(mm, kk, pat)
         /\ y_indices_base1 = [p \in 0..(Cardinality(S) - 1) |-> Sorted(S)[p] + 1]
         /\ y_values = [p \in 0..(Cardinality(S) - 1) |->
                          IF Sorted(S)[p] \in nas THEN NA(ytype) ELSE Plain(ytype, Sorted(S)[p])]
    /\ y_dense = Empty
    /\ colvec = Empty
    /\ nthreads \in {1, MaxThreads}
    /\ NoMatrix
    /\ CallInit

\* the scenario of the specification: a row with indices [1,3,5] and
\* values [1,1,1] against y with one-based indices [4,6] and values [10,20]
InitSvecExample ==
    /\ entry = "matmul_csr_svec"
    /\ y_length = 0
    /\ ytype = "numeric"
    /\ m = 1
    /\ indptr = [r \in 0..1 |-> <<0, 3>>[r + 1]]
    /\ indices = [p \in 0..2 |-> <<1, 3, 5>>[p + 1]]
    /\ values = [p \in 0..2 |-> 1]
    /\ out = [r \in 0..0 |-> 0]
    /\ writers = [r \in 0..0 |-> {}]
    /\ y_indices_base1 = [p \in 0..1 |-> <<4, 6>>[p + 1]]
    /\ y_values = [p \in 0..1 |-> <<10, 20>>[p + 1]]
    /\ y_dense = Empty
    /\ colvec = Empty
    /\ nthreads \in {1, MaxThreads}
    /\ NoMatrix
    /\ CallInit

(* ----------------------- gemm_csr_drm_as_drm --------------------------- *)
\* the num_threads clause of the pragma: the hint as it was passed
DrmTeam(hint, mm) == hint

\* the prologue: "if (m <= 0 || indptr[0] == indptr[m]) return;"
EnterDrm ==
    /\ phase = "entry"
    /\ entry \in DrmEntries
    /\ IF m <= 0 \/ indptr[0] = indptr[m]
       THEN phase' = "returned" /\ team' = 0 /\ todo' = {}
       ELSE phase' = "parallel" /\ team' = DrmTeam(nthreads, m) /\ todo' = 0..(m - 1)
    /\ UNCHANGED <<inputs, OutputMat, out, temp_arr, allocs, writers, oob, merge, outer, contract, out_swapped>>

\* row_ptr = OutputMat + row*ldc
RowPtrNoStride(r, ld) == r
RowPtr(r, ld) == r * ld

RECURSIVE DrmInner(_, _, _, _)
\* for (col = lo; col < hi; col++) axpy(&n, values + col, DenseMat + indices[col]*ldb, &one, row_ptr, &one)
DrmInner(Y, lo, hi, row_ptr) ==
    IF lo >= hi THEN Y
    ELSE DrmInner(Axpy(n, values[lo], DenseMat, indices[lo] * ldb, one, Y, row_ptr, one),
                  lo + 1, hi, row_ptr)

\* one iteration of the parallel loop, run by thread t
DrmRow(t) ==
    /\ phase = "parallel"
    /\ entry \in DrmEntries
    /\ t <= team
    /\ \E r \in todo :
        LET row_ptr == RowPtr(r, ldc)
        IN  /\ todo' = todo \ {r}
            /\ OutputMat' = DrmInner(OutputMat, indptr[r], indptr[r + 1], row_ptr)
            /\ writers' = IF indptr[r] < indptr[r + 1]
                          THEN Stored(writers, Touched(n, row_ptr, one), r)
                          ELSE writers
    /\ UNCHANGED <<inputs, out, phase, team, temp_arr, allocs, oob, merge, outer, contract, out_swapped>>

(* ----------------------- gemm_csr_drm_as_dcm --------------------------- *)
\* "nthreads = std::min(nthreads, m);"
DcmTeam(hint, mm) == Min(hint, mm)

EnterDcm ==
    /\ phase = "entry"
    /\ entry \in DcmEntries
    /\ IF m <= 0 \/ indptr[0] = indptr[m]
       THEN phase' = "returned" /\ team' = 0 /\ todo' = {}
       ELSE phase' = "parallel" /\ team' = DcmTeam(nthreads, m) /\ todo' = 0..(m - 1)
    /\ UNCHANGED <<inputs, OutputMat, out, temp_arr, allocs, writers, oob, merge, outer, contract, out_swapped>>

\* "new real_t[ldc]": a block of ScratchLen elements, its content
\* indeterminate.  mem also holds the positions past the block that the
\* kernel addresses through write_ptr.
ScratchLen(ldb_, ldc_) == ldc_

NewArr(len_, span) ==
    [null |-> FALSE, len |-> len_, mem |-> [j \in 0..(Max(len_, span) - 1) |-> Garbage]]

\* memset(write_ptr, 0, count*sizeof(real_t))
Memset(buf, count) ==
    [buf EXCEPT !.mem = [j \in DOMAIN buf.mem |-> IF j < count THEN 0 ELSE buf.mem[j]]]

\* What copying the first n_ elements out through write_ptr can give: an
\* element inside the block is the one accumulated there; an element past
\* the end of the block is that one too when the memory was left alone,
\* and indeterminate when its owner used it in the meantime.
ScratchReads(buf, n_) ==
    {[j \in DOMAIN buf.mem |-> IF j \in clob THEN Garbage ELSE buf.mem[j]] :
        clob \in SUBSET {j \in 0..(n_ - 1) : j >= buf.len}}

RECURSIVE DcmInner(_, _, _)
\* for (ix = lo; ix < hi; ix++) axpy(&n, values + ix, DenseMat + indices[ix]*ldb, &one, write_ptr, &one)
DcmInner(mem, lo, hi) ==
    IF lo >= hi THEN mem
    ELSE DcmInner(Axpy(n, values[lo], DenseMat, indices[lo] * ldb, one, mem, 0, one),
                  lo + 1, hi)

\* The dynamic schedule hands an iteration to any thread of the team that
\* asks.  Threads that hold no scratch buffer yet have no private state and
\* are interchangeable: the lowest-numbered of them stands for all.
Takes(t) ==
    /\ t <= team
    /\ temp_arr[t].null => \A u \in 1..(t - 1) : ~temp_arr[u].null

\* one iteration of the parallel loop, run by thread t: for a row with
\* stored entries the thread fetches (on first use allocates) its scratch
\* buffer, zeroes it, accumulates the row and copies it to the output
DcmRow(t) ==
    /\ phase = "parallel"
    /\ entry \in DcmEntries
    /\ Takes(t)
    /\ \E r \in todo :
        /\ todo' = todo \ {r}
        /\ IF indptr[r] < indptr[r + 1]
           THEN LET got == IF temp_arr[t].null
                           THEN NewArr(ScratchLen(ldb, ldc), Max(ldb, n))
                           ELSE temp_arr[t]
                    zeroed == Memset(got, ldb)
                    acc == [zeroed EXCEPT !.mem = DcmInner(zeroed.mem, indptr[r], indptr[r + 1])]
                IN  /\ temp_arr' = [temp_arr EXCEPT ![t] = acc]
                    /\ allocs' = [allocs EXCEPT ![t] = IF temp_arr[t].null THEN @ + 1 ELSE @]
                    /\ \E seen \in ScratchReads(acc, n) :
                         OutputMat' = Tcopy(n, seen, 0, one, OutputMat, r, ldc)
                    /\ writers' = Stored(writers, Touched(n, r, ldc), r)
                    /\ oob' = (oob \/ ldb > got.len \/ n > got.len)
           ELSE UNCHANGED <<temp_arr, allocs, OutputMat, writers, oob>>
    /\ UNCHANGED <<inputs, out, phase, team, merge, outer, contract, out_swapped>>

EndParallelKeepsScratch ==
    /\ phase = "parallel"
    /\ todo = {}
    /\ phase' = "returned"
    /\ UNCHANGED <<inputs, OutputMat, out, team, todo, temp_arr, allocs, writers, oob, merge, outer,
                   contract, out_swapped>>

(* -------------------------- matmul_csr_dvec ---------------------------- *)
\* no prologue: the parallel loop over the rows is entered in any case
EnterDvec ==
    /\ phase = "entry"
    /\ entry \in DvecEntries
    /\ phase' = "parallel"
    /\ team' = nthreads
    /\ todo' = 0..(m - 1)
    /\ UNCHANGED <<inputs, OutputMat, out, temp_arr, allocs, writers, oob, merge, outer, contract, out_swapped>>

\* "val += (y == NA) ? NA_REAL : x * y" for the element type of y
DvecTermSkipNA(type, val, xv, yv) ==
    IF type \in {"integer", "logical"} /\ yv = NA(type) THEN val
    ELSE DAdd(val, DMul(xv, IF type = "logical" THEN Bool(yv) ELSE yv))

DvecTerm(type, val, xv, yv) ==
    CASE type = "integer" -> DAdd(val, IF yv = NA_INTEGER THEN NA_REAL ELSE xv * yv)
      [] type = "logical" -> DAdd(val, IF yv = NA_LOGICAL THEN NA_REAL ELSE xv * Bool(yv))
      [] OTHER -> DAdd(val, DMul(xv, yv))

RECURSIVE DvecInner(_, _, _)
\* for (ix = lo; ix < hi; ix++) val += ...
DvecInner(val, lo, hi) ==
    IF lo >= hi THEN val
    ELSE DvecInner(DvecTerm(ytype, val, values[lo], y_dense[indices[lo]]), lo + 1, hi)

\* one iteration of the parallel loop: "val = 0; ...; out[row] = val"
DvecRow(t) ==
    /\ phase = "parallel"
    /\ entry \in DvecEntries
    /\ t <= team
    /\ \E r \in todo :
        /\ todo' = todo \ {r}
        /\ out' = [out EXCEPT ![r] = DvecInner(0, indptr[r], indptr[r + 1])]
        /\ writers' = Stored(writers, {r}, r)
    /\ UNCHANGED <<inputs, OutputMat, phase, team, temp_arr, allocs, oob, merge, outer, contract, out_swapped>>

(* -------------------------- matmul_csr_svec ---------------------------- *)
\* the prologue: "if (!y_indices_base1.size()) return out;"
EnterSvec ==
    /\ phase = "entry"
    /\ entry \in SvecEntries
    /\ IF Size(y_indices_base1) = 0
       THEN phase' = "returned" /\ team' = 0 /\ todo' = {}
       ELSE phase' = "parallel" /\ team' = nthreads /\ todo' = 0..(m - 1)
    /\ UNCHANGED <<inputs, OutputMat, out, temp_arr, allocs, writers, oob, merge, outer, contract, out_swapped>>

RECURSIVE LowerBoundLoopUpper(_, _, _, _)
LowerBoundLoopUpper(arr, first, len, value) ==
    IF len <= 0 THEN first
    ELSE LET half == len \div 2
             middle == first + half
         IN  IF arr[middle] <= value
             THEN LowerBoundLoopUpper(arr, middle + 1, len - half - 1, value)
             ELSE LowerBoundLoopUpper(arr, first, half, value)

RECURSIVE LowerBoundLoop(_, _, _, _)
\* std::lower_bound(first, first + len, value): the bisection
LowerBoundLoop(arr, first, len, value) ==
    IF len <= 0 THEN first
    ELSE LET half == len \div 2
             middle == first + half
         IN  IF arr[middle] < value
             THEN LowerBoundLoop(arr, middle + 1, len - half - 1, value)
             ELSE LowerBoundLoop(arr, first, half, value)

LowerBoundToEnd(arr, first, last, value) == last
LowerBound(arr, first, last, value) == LowerBoundLoop(arr, first, last - first, value)

SvecTermIgnoreX(type, acc, xv, yv) == DAdd(acc, IF type = "logical" THEN Bool(yv) ELSE yv)

\* "out[row] += (y == NA) ? NA_REAL : x * y" for the element type of y
SvecTermSkipNA(type, acc, xv, yv) ==
    IF type \in {"integer", "logical"} /\ yv = NA(type) THEN acc
    ELSE DAdd(acc, DMul(xv, IF type = "logical" THEN Bool(yv) ELSE yv))

SvecTerm(type, acc, xv, yv) ==
    CASE type = "integer" -> DAdd(acc, IF yv = NA_INTEGER THEN NA_REAL ELSE xv * yv)
      [] type = "logical" -> DAdd(acc, IF yv = NA_LOGICAL THEN NA_REAL ELSE xv * Bool(yv))
      [] OTHER -> DAdd(acc, DMul(xv, yv))

\* One iteration of "while (true)" for a row whose stored entries are
\* Xi[..end1_), Xv and the sparse vector yi (one-based), yv of element type
\* type.  st holds ptr1, ptr2 (as offsets), acc (out[row]), running (the
\* loop has not left through "goto next_row") and wrote (out[row] was
\* stored into).
SvecIter(type, Xi, Xv, end1_, yi, yv, st) ==
    LET end_y == Size(yi)
    IN  IF st.ptr1 >= end1_ \/ st.ptr2 >= end_y
        THEN [st EXCEPT !.running = FALSE]
        ELSE IF Xi[st.ptr1] = yi[st.ptr2] - 1
        THEN [st EXCEPT !.acc = SvecTerm(type, st.acc, Xv[st.ptr1], yv[st.ptr2]),
                        !.ptr1 = st.ptr1 + 1,
                        !.ptr2 = st.ptr2 + 1,
                        !.wrote = TRUE]
        ELSE IF yi[st.ptr2] - 1 > Xi[st.ptr1]
        THEN [st EXCEPT !.ptr1 = LowerBound(Xi, st.ptr1, end1_, yi[st.ptr2] - 1)]
        ELSE [st EXCEPT !.ptr2 = LowerBound(yi, st.ptr2, end_y, Xi[st.ptr1] + 1)]

RECURSIVE SvecLoop(_, _, _, _, _, _, _)
\* the while loop, run until it leaves
SvecLoop(type, Xi, Xv, end1_, yi, yv, st) ==
    IF ~st.running THEN st
    ELSE SvecLoop(type, Xi, Xv, end1_, yi, yv, SvecIter(type, Xi, Xv, end1_, yi, yv, st))

\* the loop's variables on entry to a row whose entries start at lo
SvecStart(lo, acc0) == [ptr1 |-> lo, ptr2 |-> 0, acc |-> acc0, running |-> TRUE, wrote |-> FALSE]

\* one iteration of the parallel loop, run by thread t
SvecRow(t) ==
    /\ phase = "parallel"
    /\ entry \in SvecEntries
    /\ t <= team
    /\ \E r \in todo :
        LET fin == SvecLoop(ytype, indices, values, indptr[r + 1], y_indices_base1, y_values,
                            SvecStart(indptr[r], out[r]))
        IN  /\ todo' = todo \ {r}
            /\ out' = [out EXCEPT ![r] = fin.acc]
            /\ writers' = IF fin.wrote THEN Stored(writers, {r}, r) ELSE writers
    /\ UNCHANGED <<inputs, OutputMat, phase, team, temp_arr, allocs, oob, merge, outer, contract, out_swapped>>

\* the implicit barrier at the end of the parallel loop; the threads'
\* private scratch buffers are destroyed
EndParallel ==
    /\ phase = "parallel"
    /\ todo = {}
    /\ phase' = "returned"
    /\ temp_arr' = [t \in Threads |-> NullPtr]
    /\ UNCHANGED <<inputs, OutputMat, out, team, todo, allocs, writers, oob, merge, outer, contract, out_swapped>>

(* ------------- matmul_csr_svec, one loop iteration at a time ------------ *)
\* The same kernel run by one thread, each iteration of "while (true)" a
\* step of its own: row, ptr1, ptr2 and end1 are the thread's private
\* variables (pointers as offsets into their arrays).
InitMerge ==
    /\ InitSvec(VecTypes, MaxInner) \/ InitSvecExample
    /\ nthreads = 1

\* for (row = ...): "ptr1 = ptr_X_indices + X_csr_indptr[row]; end1 = ...; ptr2 = ptr_y_indices;"
MergeNextRow ==
    /\ phase = "parallel"
    /\ todo # {}
    /\ LET r == CHOOSE r \in todo : \A q \in todo : r <= q
       IN  /\ row' = r
           /\ ptr1' = indptr[r]
           /\ end1' = indptr[r + 1]
           /\ todo' = todo \ {r}
    /\ ptr2' = 0
    /\ iters' = 0
    /\ phase' = "row"
    /\ UNCHANGED <<inputs, OutputMat, out, team, temp_arr, allocs, writers, oob, outer, contract, out_swapped>>

\* one iteration of the while loop on the thread's variables
MergeStep ==
    LET st == [ptr1 |-> ptr1, ptr2 |-> ptr2, acc |-> out[row], running |-> TRUE,
               wrote |-> row \in writers[row]]
        nx == SvecIter(ytype, indices, values, end1, y_indices_base1, y_values, st)
    IN  /\ ptr1' = nx.ptr1
        /\ ptr2' = nx.ptr2
        /\ out' = [out EXCEPT ![row] = nx.acc]
        /\ writers' = IF nx.wrote THEN Stored(writers, {row}, row) ELSE writers
        /\ phase' = IF nx.running THEN "row" ELSE "parallel"
        /\ iters' = iters + 1
        /\ UNCHANGED <<inputs, OutputMat, team, todo, temp_arr, allocs, oob, row, end1, outer, contract, out_swapped>>

\* "if (ptr1 >= end1 || ptr2 >= end_y) goto next_row;"
MergeExit ==
    /\ phase = "row"
    /\ ptr1 >= end1 \/ ptr2 >= Size(y_indices_base1)
    /\ MergeStep

\* "else if (*ptr1 == (*ptr2)-1) { out[row] += ...; ptr1++; ptr2++; }"
MergeMatch ==
    /\ phase = "row"
    /\ ptr1 < end1 /\ ptr2 < Size(y_indices_base1)
    /\ indices[ptr1] = y_indices_base1[ptr2] - 1
    /\ MergeStep

\* "else if (*ptr2-1 > *ptr1) ptr1 = std::lower_bound(ptr1, end1, *ptr2-1);"
MergeAdvanceX ==
    /\ phase = "row"
    /\ ptr1 < end1 /\ ptr2 < Size(y_indices_base1)
    /\ y_indices_base1[ptr2] - 1 > indices[ptr1]
    /\ MergeStep

\* "else ptr2 = std::lower_bound(ptr2, end_y, *ptr1+1);"
MergeAdvanceY ==
    /\ phase = "row"
    /\ ptr1 < end1 /\ ptr2 < Size(y_indices_base1)
    /\ y_indices_base1[ptr2] - 1 < indices[ptr1]
    /\ MergeStep

(* ---------------- matmul_colvec_by_scolvecascsr_template ---------------- *)
\* the dense vector: dim elements, each 2 or 3
\* the sparse column vector as CSR: dim2 rows, each empty or holding one
\* entry (in column 0)
InitOuter ==
    /\ entry = "matmul_colvec_by_scolvecascsr"
    /\ \E dim \in 0..MaxCols, dim2 \in 0..MaxRows :
       \E pat \in [0..(dim2 - 1) -> {{}, {0}}], scheme \in {"ramp", "alt"} :
         /\ colvec \in [0..(dim - 1) -> {2, 3}]
         /\ m = dim2
         /\ indptr = CsrIndptr(pat, dim2)
         /\ indices = CsrIndices(pat, dim2)
         /\ values = CsrValues(scheme, CsrIndptr(pat, dim2)[dim2])
    /\ ytype = "none" /\ y_dense = Empty /\ y_indices_base1 = Empty /\ y_values = Empty
    /\ y_length = 0
    /\ out = Empty
    /\ writers = Empty
    /\ nthreads = 1
    /\ NoMatrix
    /\ CallInit

\* a zero-initialized R vector
ZeroVector(len) == [c \in 0..(len - 1) |-> 0]

\* the allocations and "ncurr = 0"
OuterEnter ==
    /\ phase = "entry"
    /\ entry = "matmul_colvec_by_scolvecascsr"
    /\ LET dim == Size(colvec)
           dim2 == Size(indptr) - 1
           nnz_out == Size(indices) * dim
       IN  /\ out_csr_indptr' = ZeroVector(dim2 + 1)
           /\ out_csr_indices' = ZeroVector(nnz_out)
           /\ out_csr_values' = ZeroVector(nnz_out)
    /\ ncurr' = 0
    /\ ix' = 0
    /\ phase' = "fill"
    /\ UNCHANGED <<inputs, OutputMat, out, team, todo, temp_arr, allocs, writers, oob, merge, contract, colvec, out_swapped>>

\* std::iota(arr + first, arr + first + count, start)
IotaConstant(arr, first, count, start) ==
    [c \in DOMAIN arr |-> IF c >= first /\ c < first + count THEN start ELSE arr[c]]

Iota(arr, first, count, start) ==
    [c \in DOMAIN arr |-> IF c >= first /\ c < first + count THEN start + (c - first) ELSE arr[c]]

\* one iteration of the first loop
OuterFillRow ==
    /\ phase = "fill"
    /\ ix < Size(indptr) - 1
    /\ LET dim == Size(colvec)
       IN  IF indptr[ix] < indptr[ix + 1]
           THEN /\ out_csr_indptr' = [out_csr_indptr EXCEPT ![ix + 1] = dim]
                /\ out_csr_values' = Axpy(dim, values[indptr[ix]], colvec, 0, one,
                                          out_csr_values, ncurr, one)
                /\ out_csr_indices' = Iota(out_csr_indices, ncurr, dim, 0)
                /\ ncurr' = ncurr + dim
           ELSE UNCHANGED <<out_csr_indptr, out_csr_values, out_csr_indices, ncurr>>
    /\ ix' = ix + 1
    /\ UNCHANGED <<inputs, OutputMat, out, phase, team, todo, temp_arr, allocs, writers, oob, merge, contract, colvec, out_swapped>>

\* the first loop ends; the second one starts
OuterFillDone ==
    /\ phase = "fill"
    /\ ix >= Size(indptr) - 1
    /\ phase' = "cumsum"
    /\ ix' = 0
    /\ UNCHANGED <<inputs, OutputMat, out, team, todo, temp_arr, allocs, writers, oob, merge, contract,
                   colvec, out_csr_indptr, out_csr_indices, out_csr_values, ncurr, out_swapped>>

\* "out_csr_indptr[ix+1] += out_csr_indptr[ix];"
OuterCumsum ==
    /\ phase = "cumsum"
    /\ ix < Size(indptr) - 1
    /\ out_csr_indptr' = [out_csr_indptr EXCEPT ![ix + 1] = out_csr_indptr[ix + 1] + out_csr_indptr[ix]]
    /\ ix' = ix + 1
    /\ UNCHANGED <<inputs, OutputMat, out, phase, team, todo, temp_arr, allocs, writers, oob, merge, contract,
                   colvec, out_csr_indices, out_csr_values, ncurr, out_swapped>>

\* "return Rcpp::List::create(...)"
OuterReturn ==
    /\ phase = "cumsum"
    /\ ix >= Size(indptr) - 1
    /\ phase' = "returned"
    /\ UNCHANGED <<inputs, OutputMat, out, team, todo, temp_arr, allocs, writers, oob, merge, outer, contract, out_swapped>>

(* --------- matmul_csr_svec on two sparse vectors, in both orders -------- *)
\* u is the single row of X (indices, values), v the sparse vector y
\* (y_indices_base1, y_values); neither holds a missing value
InitDot ==
    /\ InitSvec(VecTypes, 0) \/ InitSvecExample
    /\ m = 1
    /\ nthreads = 1

\* matmul_csr_svec for an X of one row: the element out[0] it returns
Dot(type, Xi, Xv, yi, yv) ==
    IF Size(yi) = 0 THEN 0
    ELSE SvecLoop(type, Xi, Xv, Size(Xi), yi, yv, SvecStart(0, 0)).acc

\* a one-based index list as the zero-based indices of a CSR row, and back
ToZeroBased(idx) == [p \in DOMAIN idx |-> idx[p] - 1]
ToOneBased(idx) == [p \in DOMAIN idx |-> idx[p] + 1]

\* a vector's values as the doubles a CSR matrix stores
AsNumeric(type, vals) == [p \in DOMAIN vals |-> IF type = "logical" THEN Bool(vals[p]) ELSE vals[p]]

\* the call with u as X and v as y
DotUV ==
    /\ phase = "entry"
    /\ entry \in SvecEntries
    /\ out' = [r \in 0..0 |-> Dot(ytype, indices, values, y_indices_base1, y_values)]
    /\ phase' = "exchanged"
    /\ UNCHANGED <<inputs, OutputMat, team, todo, temp_arr, allocs, writers, oob, merge, outer, contract,
                   out_swapped>>

\* the call with v as X and u as y
DotVU ==
    /\ phase = "exchanged"
    /\ out_swapped' = [r \in 0..0 |-> Dot("numeric", ToZeroBased(y_indices_base1), AsNumeric(ytype, y_values),
                                          ToOneBased(indices), values)]
    /\ phase' = "returned"
    /\ UNCHANGED <<inputs, OutputMat, out, team, todo, temp_arr, allocs, writers, oob, merge, outer, contract>>

(* -------------------- matmul_spcolvec_by_scolvecascsr ------------------- *)
\* X: a sparse column vector as CSR, dim2 rows, each empty or holding one
\* entry; y: a sparse vector of length len with one-based ascending indices
InitContract ==
    /\ entry = "matmul_spcolvec_by_scolvecascsr"
    /\ ytype \in VecTypes
    /\ \E dim2 \in 0..MaxRows, len \in 0..MaxInner :
       \E pat \in [0..(dim2 - 1) -> {{}, {0}}], S \in SUBSET (0..(len - 1)) :
       \E nas \in NaSets(ytype, S, MaxInner) :
         /\ m = dim2
         /\ indptr = CsrIndptr(pat, dim2)
         /\ indices = CsrIndices(pat, dim2)
         /\ values = CsrValues("ramp", CsrIndptr(pat, dim2)[dim2])
         /\ y_length = len
         /\ y_indices_base1 = [p \in 0..(Cardinality(S) - 1) |-> Sorted(S)[p] + 1]
         /\ y_values = [p \in 0..(Cardinality(S) - 1) |->
                          IF Sorted(S)[p] \in nas THEN NA(ytype) ELSE Plain(ytype, Sorted(S)[p])]
    /\ y_dense = Empty
    /\ colvec = Empty
    /\ out = Empty
    /\ writers = Empty
    /\ nthreads = 1
    /\ NoMatrix
    /\ CallInit

\* "Rcpp::IntegerVector out_csc_indptr(y_length+1); std::vector<int>
\* out_csc_indices; std::vector<double> out_csc_values;"
ContractEnter ==
    /\ phase = "entry"
    /\ entry = "matmul_spcolvec_by_scolvecascsr"
    /\ out_csc_indptr' = ZeroVector(y_length + 1)
    /\ out_csc_indices' = Empty
    /\ out_csc_values' = Empty
    /\ ix' = 0
    /\ phase' = "columns"
    /\ UNCHANGED <<inputs, OutputMat, out, team, todo, temp_arr, allocs, writers, oob, merge,
                   colvec, out_csr_indptr, out_csr_indices, out_csr_values, ncurr,
                   y_length, yval, col, out_swapped>>

\* what reading arr[pos] gives: the element, or, past the end of the
\* array, an indeterminate value
ReadAt(arr, pos) ==
    IF pos \in DOMAIN arr THEN {arr[pos]} ELSE {0, Garbage}

\* vec.push_back(x)
PushBack(vec, x) == [i \in 0..Size(vec) |-> IF i < Size(vec) THEN vec[i] ELSE x]

\* the value pushed for a non-empty row: "(yval == NA_INTEGER) ? NA_REAL :
\* (yval * x)" for the int instantiation (integer and logical y),
\* "yval * x" for the double one
ContractTerm(type, yv, xv) ==
    IF type \in {"integer", "logical"}
    THEN IF yv = NA_INTEGER THEN NA_REAL ELSE yv * xv
    ELSE DMul(yv, xv)

RECURSIVE ContractRows(_, _, _)
\* for (row = row_; row < dim2; row++) if (X_csr_indptr[row] < X_csr_indptr[row+1]) { push_back...; ncurr++; }
\* acc holds out_csc_values, out_csc_indices and ncurr
ContractRows(acc, row_, yv) ==
    IF row_ >= Size(indptr) - 1 THEN acc
    ELSE IF indptr[row_] < indptr[row_ + 1]
    THEN ContractRows([values |-> PushBack(acc.values, ContractTerm(ytype, yv, values[indptr[row_]])),
                       indices |-> PushBack(acc.indices, row_),
                       ncurr |-> acc.ncurr + 1],
                      row_ + 1, yv)
    ELSE ContractRows(acc, row_ + 1, yv)

\* one iteration of the loop over the stored entries of y
ContractColumn ==
    /\ phase = "columns"
    /\ ix < Size(y_indices_base1)
    \* "col = y_indices_base1[ix] - 1; yval = y_values[col]; ncurr = 0;"
    /\ LET c == y_indices_base1[ix] - 1
       IN  /\ col' = c
           /\ oob' = (oob \/ c \notin DOMAIN y_values)
           /\ \E yv \in ReadAt(y_values, c) :
                LET fin == ContractRows([values |-> out_csc_values, indices |-> out_csc_indices,
                                         ncurr |-> 0], 0, yv)
                IN  /\ yval' = yv
                    /\ out_csc_values' = fin.values
                    /\ out_csc_indices' = fin.indices
                    /\ ncurr' = fin.ncurr
                    /\ out_csc_indptr' = [out_csc_indptr EXCEPT ![c + 1] = fin.ncurr]
    /\ ix' = ix + 1
    /\ UNCHANGED <<inputs, OutputMat, out, phase, team, todo, temp_arr, allocs, writers, merge,
                   colvec, out_csr_indptr, out_csr_indices, out_csr_values, y_length, out_swapped>>

\* the loop over y's entries ends; the loop over out_csc_indptr starts
ContractColumnsDone ==
    /\ phase = "columns"
    /\ ix >= Size(y_indices_base1)
    /\ phase' = "accumulate"
    /\ ix' = 0
    /\ UNCHANGED <<inputs, OutputMat, out, team, todo, temp_arr, allocs, writers, oob, merge,
                   colvec, out_csr_indptr, out_csr_indices, out_csr_values, ncurr, contract, out_swapped>>

ContractCumsumSkip ==
    /\ phase = "accumulate"
    /\ ix < y_length
    /\ ix' = ix + 1
    /\ UNCHANGED <<inputs, OutputMat, out, phase, team, todo, temp_arr, allocs, writers, oob, merge,
                   colvec, out_csr_indptr, out_csr_indices, out_csr_values, ncurr, contract, out_swapped>>

\* "out_csc_indptr[ix+1] += out_csc_indptr[ix];"
ContractCumsum ==
    /\ phase = "accumulate"
    /\ ix < y_length
    /\ out_csc_indptr' = [out_csc_indptr EXCEPT ![ix + 1] = out_csc_indptr[ix + 1] + out_csc_indptr[ix]]
    /\ ix' = ix + 1
    /\ UNCHANGED <<inputs, OutputMat, out, phase, team, todo, temp_arr, allocs, writers, oob, merge,
                   colvec, out_csr_indptr, out_csr_indices, out_csr_values, ncurr,
                   y_length, out_csc_indices, out_csc_values, yval, col, out_swapped>>

\* the vectors are copied into R vectors and returned
ContractReturn ==
    /\ phase = "accumulate"
    /\ ix >= y_length
    /\ phase' = "returned"
    /\ UNCHANGED <<inputs, OutputMat, out, team, todo, temp_arr, allocs, writers, oob, merge, outer, contract, out_swapped>>

(* ======================= properties of the kernels ====================== *)
\* number of rows of the dense operand (the inner dimension)
InnerDim == Cardinality(DOMAIN DenseMat) \div ldb

\* sum over the stored entries p in [lo, hi) of values[p] * DenseMat[indices[p]*ldb + j]
RECURSIVE SumStored(_, _, _)
SumStored(lo, hi, j) ==
    IF lo >= hi THEN 0
    ELSE values[lo] * DenseMat[indices[lo] * ldb + j] + SumStored(lo + 1, hi, j)

RefDot(r, j) == SumStored(indptr[r], indptr[r + 1], j)

\* element (i, c) of the sparse operand read as a dense matrix
XAt(i, c) ==
    LET ps == {p \in indptr[i]..(indptr[i + 1] - 1) : indices[p] = c}
    IN  IF ps = {} THEN 0 ELSE values[CHOOSE p \in ps : TRUE]

RECURSIVE SumInner(_, _, _)
\* sum over c in [0, kk) of X[i, c] * Y[j, c], Y column-major with n rows
SumInner(i, j, kk) ==
    IF kk = 0 THEN 0
    ELSE XAt(i, kk - 1) * DenseMat[j + (kk - 1) * n] + SumInner(i, j, kk - 1)

\* C1: accumulate mode: after the call every cell (r, j) of the row-major
\* output holds its initial value plus the sum over the stored entries
\* (c, v) of row r of v * B[c*ldb + j].
C1_AccumulateIsReference ==
    (phase = "returned" /\ entry \in DrmEntries) =>
        \A r \in 0..(m - 1), j \in 0..(n - 1) :
            OutputMat[r * ldc + j] = X0[r * ldc + j] + RefDot(r, j)

\* the scenario of the specification has run, on the largest team, and
\* produced [[1,2,0],[0,0,0],[0,0,3]]
C1_Witness ==
    /\ phase = "returned"
    /\ entry = "gemm_csr_drm_as_drm"
    /\ m = 3 /\ n = 3 /\ nthreads = MaxThreads
    /\ indptr = [r \in 0..3 |-> <<0, 2, 2, 3>>[r + 1]]
    /\ OutputMat = [c \in 0..8 |-> <<1, 2, 0, 0, 0, 0, 0, 0, 3>>[c + 1]]

\* C2: materialize mode: after the call every cell (r, j) of the
\* zero-initialized column-major output holds the sum over the stored
\* entries (c, v) of row r of v * B[c*ldb + j], whichever thread handled
\* the row and whatever it handled before; rows without stored entries
\* stay zero.
C2_MaterializeIsReference ==
    (phase = "returned" /\ entry \in DcmEntries) =>
        \A r \in 0..(m - 1), j \in 0..(n - 1) :
            OutputMat[r + j * ldc] = RefDot(r, j)

\* C3: tcrossprod_csr_dense returns X %*% t(Y): out[i + j*m] is the sum
\* over c of X[i, c] * Y[j, c], for every shape.
C3_TcrossprodIsXtY ==
    (phase = "returned" /\ entry = "tcrossprod_csr_dense") =>
        \A i \in 0..(m - 1), j \in 0..(n - 1) :
            OutputMat[i + j * m] = SumInner(i, j, InnerDim)

\* C9: a thread's scratch buffer has ldb elements, so the ldb elements
\* that are zeroed and the n elements that are accumulated into and copied
\* out all lie inside it.
C9_ScratchHoldsLdb ==
    /\ \A t \in Threads :
          ~temp_arr[t].null =>
              /\ temp_arr[t].len = ldb
              /\ ldb <= temp_arr[t].len
              /\ n <= temp_arr[t].len
    /\ ~oob

(* ----------------------------- vector kernels --------------------------- *)
\* the zero-based indices stored in row r of X, and those stored in y
RowCols(r) == {indices[p] : p \in indptr[r]..(indptr[r + 1] - 1)}
YCols == {y_indices_base1[p] - 1 : p \in DOMAIN y_indices_base1}
Common(r) == RowCols(r) \cap YCols

\* y's stored value at the zero-based index i
YAt(i) == y_values[CHOOSE p \in DOMAIN y_indices_base1 : y_indices_base1[p] = i + 1]

\* a non-missing vector element as a number
Num(type, v) == IF type = "logical" THEN Bool(v) ELSE v

RECURSIVE SumCommon(_, _)
\* sum over the indices i in S of X[r, i] * y[i]
SumCommon(r, S) ==
    IF S = {} THEN 0
    ELSE LET i == CHOOSE i \in S : TRUE
         IN  XAt(r, i) * Num(ytype, YAt(i)) + SumCommon(r, S \ {i})

\* C4: sparse x sparse dot product without missing values: out[row] is the
\* sum of X[row, i] * y[i] over exactly the indices stored both in the row
\* and (as i+1) in y; 0 when the row, y or the intersection is empty.
C4_SvecIsIntersectionSum ==
    (/\ phase = "returned"
     /\ entry \in SvecEntries
     /\ \A p \in DOMAIN y_values : y_values[p] # NA(ytype)) =>
        \A r \in 0..(m - 1) : out[r] = SumCommon(r, Common(r))

\* the scenario of the specification has run and given 30
C4_Witness ==
    /\ phase = "returned"
    /\ entry \in SvecEntries
    /\ indices = [p \in 0..2 |-> <<1, 3, 5>>[p + 1]]
    /\ y_indices_base1 = [p \in 0..1 |-> <<4, 6>>[p + 1]]
    /\ y_values = [p \in 0..1 |-> <<10, 20>>[p + 1]]
    /\ out[0] = 30

\* row r has a stored entry at an index where the dense vector is missing
TouchesNA(r) == \E p \in indptr[r]..(indptr[r + 1] - 1) : y_dense[indices[p]] = NA(ytype)

RECURSIVE SumRow(_, _)
\* sum over the stored entries p in [lo, hi) of values[p] * y[indices[p]]
SumRow(lo, hi) ==
    IF lo >= hi THEN 0
    ELSE values[lo] * Num(ytype, y_dense[indices[lo]]) + SumRow(lo + 1, hi)

\* C5: sparse row x dense integer or logical vector: out[row] is missing
\* when a stored entry of the row touches a missing element of y, whatever
\* the other terms are; otherwise it is the sum over the stored entries
\* (c, v) of v * y[c], so a missing element no entry of the row touches
\* does not make the row missing.
C5_DvecNAPropagation ==
    (phase = "returned" /\ entry \in DvecEntries /\ ytype \in {"integer", "logical"}) =>
        \A r \in 0..(m - 1) :
            out[r] = IF TouchesNA(r) THEN NA_REAL ELSE SumRow(indptr[r], indptr[r + 1])

\* a call has returned in which one row has two stored entries of which
\* one touches the missing element, and another row has stored entries but
\* none at the missing element
C5_Witness ==
    /\ phase = "returned"
    /\ entry \in DvecEntries
    /\ ytype \in {"integer", "logical"}
    /\ \E r1, r2 \in 0..(m - 1) :
        /\ TouchesNA(r1)
        /\ indptr[r1 + 1] - indptr[r1] >= 2
        /\ out[r1] = NA_REAL
        /\ ~TouchesNA(r2)
        /\ indptr[r2] < indptr[r2 + 1]
        /\ out[r2] # NA_REAL

\* a matched index of row r carries the missing value in y
MatchesNA(r) == \E i \in Common(r) : YAt(i) = NA(ytype)

\* C6: sparse x sparse with integer or logical y: out[row] is missing
\* exactly when some index matched between the row and y has a missing y
\* value; otherwise (also when y is missing only at indices the row lacks)
\* it is the ordinary intersection sum; and a partial sum that has become
\* missing stays missing through every later step.
C6_SvecNAPropagation ==
    /\ []((phase = "returned" /\ entry \in SvecEntries /\ ytype \in {"integer", "logical"}) =>
            \A r \in 0..(m - 1) :
                /\ out[r] = NA_REAL <=> MatchesNA(r)
                /\ ~MatchesNA(r) => out[r] = SumCommon(r, Common(r)))
    /\ [][\A r \in DOMAIN out : out[r] = NA_REAL => out'[r] = NA_REAL]_vars

\* a call has returned in which one row matched a missing y value and
\* after it a non-missing one, and another row matched only a non-missing
\* one while y is missing at an index that row lacks
C6_Witness ==
    /\ phase = "returned"
    /\ entry \in SvecEntries
    /\ ytype \in {"integer", "logical"}
    /\ \E r1, r2 \in 0..(m - 1) :
        /\ \E i, j \in Common(r1) : i < j /\ YAt(i) = NA(ytype) /\ YAt(j) # NA(ytype)
        /\ out[r1] = NA_REAL
        /\ Common(r2) # {}
        /\ ~MatchesNA(r2)
        /\ \E i \in YCols \ RowCols(r2) : YAt(i) = NA(ytype)
        /\ out[r2] # NA_REAL

(* ------------------------------ threading ------------------------------- *)
RECURSIVE SerialDrm(_, _)
\* the rows r, r+1, ... of the accumulate kernel run in order on buffer O
SerialDrm(O, r) ==
    IF r >= m THEN O
    ELSE SerialDrm(DrmInner(O, indptr[r], indptr[r + 1], RowPtr(r, ldc)), r + 1)

RECURSIVE SerialDcm(_, _)
\* the same for the materialize kernel, every element that is copied out
\* being the one that was accumulated
SerialDcm(O, r) ==
    IF r >= m THEN O
    ELSE IF indptr[r] < indptr[r + 1]
    THEN LET fresh == Memset(NewArr(ScratchLen(ldb, ldc), Max(ldb, n)), ldb)
             acc == DcmInner(fresh.mem, indptr[r], indptr[r + 1])
         IN  SerialDcm(Tcopy(n, acc, 0, one, O, r, ldc), r + 1)
    ELSE SerialDcm(O, r + 1)

SerialDvec == [r \in DOMAIN out |-> DvecInner(0, indptr[r], indptr[r + 1])]

SerialSvec ==
    [r \in DOMAIN out |->
        IF Size(y_indices_base1) = 0 THEN 0
        ELSE SvecLoop(ytype, indices, values, indptr[r + 1], y_indices_base1, y_values,
                      SvecStart(indptr[r], 0)).acc]

\* C7: threading invariance: whatever the thread count and the assignment
\* of rows to threads, the output a parallel kernel returns is the one the
\* rows give when run one after the other.
C7_ThreadingInvariance ==
    phase = "returned" =>
        /\ entry \in DrmEntries => OutputMat = SerialDrm(X0, 0)
        /\ entry \in DcmEntries => OutputMat = SerialDcm(X0, 0)
        /\ entry \in DvecEntries => out = SerialDvec
        /\ entry \in SvecEntries => out = SerialSvec

\* the output slice of row r
Slice(r) ==
    CASE entry \in DrmEntries -> {r * ldc + j : j \in 0..(n - 1)}
      [] entry \in DcmEntries -> {r + j * ldc : j \in 0..(n - 1)}
      [] OTHER -> {r}

\* C8: disjoint output slices: no output cell is stored into by the
\* iterations of two different rows, and the cells row r's iteration
\* stores into are r*ldc + j (row-major kernel), r + j*ldc (column-major
\* kernel) or out[r] (vector kernels).
C8_DisjointSlices ==
    \A c \in DOMAIN writers :
        /\ Cardinality(writers[c]) <= 1
        /\ \A r \in writers[c] : c \in Slice(r)

\* a team of several threads has finished a call of the column-major
\* kernel (through tcrossprod_csr_dense) in which the iterations of two
\* rows each stored a strided slice of several cells
C8_Witness ==
    /\ phase = "returned"
    /\ team = MaxThreads
    /\ entry = "tcrossprod_csr_dense"
    /\ n >= 2
    /\ \E c1, c2 \in DOMAIN writers : writers[c1] = {0} /\ writers[c2] = {1}

(* --------------------------- outer product ------------------------------ *)
\* C10: outer product of a dense vector (k elements) and a sparse column
\* vector stored as CSR: every non-empty input row i has exactly k entries
\* in the result, with indices 0, 1, ..., k-1 in that order and values
\* w_i * v[0], ..., w_i * v[k-1]; every empty row has none.
C10_OuterProduct ==
    (phase = "returned" /\ entry = "matmul_colvec_by_scolvecascsr") =>
        LET k == Size(colvec)
        IN  \A i \in 0..(m - 1) :
              LET first == out_csr_indptr[i]
              IN  IF indptr[i] < indptr[i + 1]
                  THEN /\ out_csr_indptr[i + 1] - first = k
                       /\ \A j \in 0..(k - 1) :
                            /\ out_csr_indices[first + j] = j
                            /\ out_csr_values[first + j] = values[indptr[i]] * colvec[j]
                  ELSE out_csr_indptr[i + 1] - first = 0

\* the kernel has returned for a vector of the largest length and a sparse
\* vector with an empty row followed by a non-empty one
C10_Witness ==
    /\ phase = "returned"
    /\ entry = "matmul_colvec_by_scolvecascsr"
    /\ Size(colvec) = MaxCols
    /\ \E i, i2 \in 0..(m - 1) :
        /\ i < i2
        /\ indptr[i] = indptr[i + 1]
        /\ indptr[i2] < indptr[i2 + 1]
        /\ out_csr_indptr[i2 + 1] = MaxCols

\* C12: the sparse x sparse dot product is commutative: with u as the CSR
\* row and v as the one-based vector, matmul_csr_svec gives the same
\* number as with v as the CSR row and u as the one-based vector.
C12_DotCommutes ==
    (phase = "returned" /\ entry \in SvecEntries) => out[0] = out_swapped[0]

\* both calls have been made on two vectors that share at least two
\* indices, and the product is not zero
C12_Witness ==
    /\ phase = "returned"
    /\ entry \in SvecEntries
    /\ out_swapped # Empty
    /\ Cardinality(Common(0)) >= 2
    /\ out[0] # 0
    /\ out_swapped[0] = out[0]

(* ------------------------------ merge loop ------------------------------ *)
\* the first position p in [lo, hi) with arr[p] >= v, or hi when there is none
FirstAtLeast(arr, lo, hi, v) ==
    CHOOSE p \in lo..hi : /\ p = hi \/ arr[p] >= v
                          /\ \A q \in lo..(p - 1) : arr[q] < v

\* C15: merge loop progress and termination: an iteration of the per-row
\* loop either exits, or (equal indices) advances both cursors by one, or
\* moves exactly the cursor at the smaller index strictly forward to the
\* first position whose index is >= the other cursor's index, not past
\* its end and over no index both lists hold; the cursors stay within
\* their lists, and a row takes at most len(row) + len(y) iterations.
C15_MergeProgress ==
    /\ [](entry \in SvecEntries =>
            /\ ptr1 <= end1
            /\ ptr2 <= Size(y_indices_base1)
            /\ iters <= (end1 - indptr[row]) + Size(y_indices_base1))
    /\ [][phase = "row" =>
            LET end_y == Size(y_indices_base1)
            IN  IF ptr1 >= end1 \/ ptr2 >= end_y
                THEN phase' = "parallel" /\ ptr1' = ptr1 /\ ptr2' = ptr2
                ELSE /\ phase' = "row"
                     /\ LET i1 == indices[ptr1]
                            i2 == y_indices_base1[ptr2] - 1
                        IN  CASE i1 = i2 -> ptr1' = ptr1 + 1 /\ ptr2' = ptr2 + 1
                              [] i1 < i2 ->
                                    /\ ptr2' = ptr2
                                    /\ ptr1' > ptr1 /\ ptr1' <= end1
                                    /\ ptr1' = FirstAtLeast(indices, ptr1, end1, i2)
                                    /\ \A q \in ptr1..(ptr1' - 1) :
                                         \A p \in ptr2..(end_y - 1) : indices[q] # y_indices_base1[p] - 1
                              [] i1 > i2 ->
                                    /\ ptr1' = ptr1
                                    /\ ptr2' > ptr2 /\ ptr2' <= end_y
                                    /\ ptr2' = FirstAtLeast(y_indices_base1, ptr2, end_y, i1 + 1)
                                    /\ \A q \in ptr2..(ptr2' - 1) :
                                         \A p \in ptr1..(end1 - 1) : y_indices_base1[q] - 1 # indices[p]
         ]_vars

\* a row's loop has ended after as many iterations as the two lists have
\* entries together, both lists holding entries and one cursor having
\* been moved by a search
C15_Witness ==
    /\ entry \in SvecEntries
    /\ phase = "parallel"
    /\ end1 - indptr[row] >= 1
    /\ Size(y_indices_base1) >= 1
    /\ iters = (end1 - indptr[row]) + Size(y_indices_base1)
    /\ (ptr1 = end1) # (ptr2 = Size(y_indices_base1))

(* ------------------------ team size and prologue ----------------------- *)
\* C13: thread-count clamp: in both modes of the sparse-row x dense-matrix
\* kernel the number of threads requested for the parallel row loop is at
\* most the number of rows m.
C13_ThreadClamp ==
    (phase = "parallel" /\ entry \in DrmEntries \cup DcmEntries) => team <= m

\* the sparse operand has no rows, or only empty rows
Degenerate == m = 0 \/ indptr[0] = indptr[m]

\* C14: degenerate-input short-circuit: a parallel kernel called with zero
\* rows or with only empty rows never enters its parallel row loop, and
\* returns its output as it was initialized.
C14_DegenerateShortCircuit ==
    (Degenerate /\ entry \in DrmEntries \cup DcmEntries \cup DvecEntries \cup SvecEntries) =>
        /\ phase # "parallel"
        /\ OutputMat = X0
        /\ \A r \in DOMAIN out : out[r] = 0

(* --------------------------- scratch buffers ---------------------------- *)
\* C16: scratch buffer lifecycle: a thread allocates its scratch buffer
\* at most once per call, and only in an iteration for a row with stored
\* entries; it keeps that buffer for its later rows; an iteration touches
\* the buffer of one thread only; and no buffer exists before the
\* parallel loop or after it.
C16_ScratchLifecycle ==
    /\ [](\A t \in Threads :
            /\ allocs[t] <= 1
            /\ phase = "parallel" => (temp_arr[t].null <=> allocs[t] = 0)
            /\ phase # "parallel" => temp_arr[t].null
            /\ t > team => allocs[t] = 0)
    /\ [][/\ \A t \in Threads :
               /\ (temp_arr[t].null /\ ~temp_arr'[t].null) =>
                     \E r \in todo \ todo' : indptr[r] < indptr[r + 1]
               /\ (~temp_arr[t].null /\ phase' = "parallel") =>
                     /\ ~temp_arr'[t].null
                     /\ temp_arr'[t].len = temp_arr[t].len
                     /\ allocs'[t] = allocs[t]
          /\ phase' = "parallel" => Cardinality({t \in Threads : temp_arr'[t] # temp_arr[t]}) <= 1
         ]_vars

\* a call of the column-major kernel has returned in which one thread of
\* a team of several handled two rows with stored entries on a single
\* allocation, and another thread never allocated
C16_Witness ==
    /\ phase = "returned"
    /\ entry \in DcmEntries
    /\ team >= 2
    /\ Cardinality({r \in 0..(m - 1) : indptr[r] < indptr[r + 1]}) >= 2
    /\ allocs[1] = 1
    /\ allocs[2] = 0

(* ----------------------------- contraction ----------------------------- *)
\* the rows of X that hold a stored entry
NonEmptyRows == {r \in 0..(m - 1) : indptr[r] < indptr[r + 1]}

\* weight * x, missing when an integer or logical weight is missing
Weighted(w, x) ==
    IF ytype \in {"integer", "logical"} /\ w = NA(ytype) THEN NA_REAL ELSE w * x

\* C11: contraction kernel: for every stored entry of y (index c, weight
\* y_values[ix]) output column c holds one entry per non-empty row r of X,
\* in ascending r, with value weight * X[r] (missing for a missing
\* weight); every other column is empty; and y's value list is only read
\* below its number of stored entries.
C11_ContractionColumns ==
    (phase = "returned" /\ entry = "matmul_spcolvec_by_scolvecascsr") =>
        /\ ~oob
        /\ \A c \in 0..(y_length - 1) :
             LET first == out_csc_indptr[c]
                 count == out_csc_indptr[c + 1] - first
             IN  IF c \in YCols
                 THEN /\ count = Cardinality(NonEmptyRows)
                      /\ \A q \in 0..(count - 1) :
                           LET r == Sorted(NonEmptyRows)[q]
                           IN  /\ out_csc_indices[first + q] = r
                               /\ out_csc_values[first + q] = Weighted(YAt(c), values[indptr[r]])
                 ELSE count = 0

(* ------------------------- compressed sparse output --------------------- *)
\* ptr, idx, vals are a compressed sparse structure of "segments" rows (or
\* columns) whose indices lie in 0..(range - 1)
WellFormed(ptr, idx, vals, segments, range) ==
    /\ DOMAIN ptr = 0..segments
    /\ ptr[0] = 0
    /\ \A sg \in 0..(segments - 1) : ptr[sg] <= ptr[sg + 1]
    /\ ptr[segments] = Size(idx)
    /\ ptr[segments] = Size(vals)
    /\ \A sg \in 0..(segments - 1) :
         \A p \in ptr[sg]..(ptr[sg + 1] - 1) :
           /\ idx[p] \in 0..(range - 1)
           /\ p + 1 < ptr[sg + 1] => idx[p] < idx[p + 1]

\* C17: well-formed sparse output: when X has at most one stored entry per
\* row and y's indices are distinct, what the two sparse-output kernels
\* return satisfies the compressed-sparse invariants: indptr[0] = 0,
\* indptr non-decreasing, the last indptr equal to the length of indices
\* and of values (nnz * k for the outer product, with every allocated slot
\* written; nnz_y * the number of non-empty rows for the contraction), and
\* the indices of every segment strictly ascending and in range.
C17_WellFormedOutput ==
    phase = "returned" =>
        /\ entry = "matmul_colvec_by_scolvecascsr" =>
             /\ WellFormed(out_csr_indptr, out_csr_indices, out_csr_values, m, Size(colvec))
             /\ Size(out_csr_indices) = Size(indices) * Size(colvec)
             /\ ncurr = Size(out_csr_values)
        /\ entry = "matmul_spcolvec_by_scolvecascsr" =>
             /\ WellFormed(out_csc_indptr, out_csc_indices, out_csc_values, y_length, m)
             /\ Size(out_csc_indices) = Size(y_indices_base1) * Cardinality(NonEmptyRows)

\* the contraction kernel has returned a structure of several columns,
\* each holding several entries, with an empty column before a filled one
C17_Witness ==
    /\ phase = "returned"
    /\ entry = "matmul_spcolvec_by_scolvecascsr"
    /\ Cardinality(NonEmptyRows) >= 2
    /\ Size(out_csc_indices) >= 2
    /\ \E c \in 0..(y_length - 2) :
         /\ out_csc_indptr[c] = out_csc_indptr[c + 1]
         /\ out_csc_indptr[c + 1] < out_csc_indptr[c + 2]

Init ==
    \/ InitGemm
    \/ InitGemmExample
    \/ InitDvec
    \/ InitSvec({"integer"}, 1)
    \/ InitSvecExample

Next ==
    \/ EnterDrm
    \/ \E t \in Threads : DrmRow(t)
    \/ EnterDcm
    \/ \E t \in Threads : DcmRow(t)
    \/ EnterDvec
    \/ \E t \in Threads : DvecRow(t)
    \/ EnterSvec
    \/ \E t \in Threads : SvecRow(t)
    \/ EndParallel

Spec == Init /\ [][Next]_vars

NextMerge ==
    \/ EnterSvec
    \/ MergeNextRow
    \/ MergeExit
    \/ MergeMatch
    \/ MergeAdvanceX
    \/ MergeAdvanceY
    \/ EndParallel

SpecMerge == InitMerge /\ [][NextMerge]_vars

NextOuter ==
    \/ OuterEnter
    \/ OuterFillRow
    \/ OuterFillDone
    \/ OuterCumsum
    \/ OuterReturn

SpecOuter == InitOuter /\ [][NextOuter]_vars

NextContract ==
    \/ ContractEnter
    \/ ContractColumn
    \/ ContractColumnsDone
    \/ ContractCumsum
    \/ ContractReturn

SpecContract == InitContract /\ [][NextContract]_vars

NextDot ==
    \/ DotUV
    \/ DotVU

SpecDot == InitDot /\ [][NextDot]_vars

\* the two kernels that return a compressed sparse structure
InitSparse ==
    \/ InitOuter
    \/ InitContract

NextSparse ==
    \/ OuterEnter
    \/ OuterFillRow
    \/ OuterFillDone
    \/ OuterCumsum
    \/ OuterReturn
    \/ ContractEnter
    \/ ContractColumn
    \/ ContractColumnsDone
    \/ ContractCumsum
    \/ ContractReturn

SpecSparse == InitSparse /\ [][NextSparse]_vars
====
